---- MODULE Spec2Model ----
(***************************************************************************)
(* Model of src/PyQt5/deep_hedging_gui.py: the DH_Worker training thread   *)
(* (run_deep_hedge_algo, pause, cont, stop, run) and the two MainWindow    *)
(* button handlers that drive it (RunButton, Pause).                       *)
(*                                                                         *)
(* The GUI thread runs one handler at a time, so a handler is one action.  *)
(* The worker thread runs DH_Worker.run concurrently; each statement group *)
(* of run that reads or writes state shared with the GUI thread is one     *)
(* action, and pc is the worker's position in run.                         *)
(*                                                                         *)
(* Spec:          valid configurations for which the models are built, no  *)
(*                failure inside a step, a clock that advances during      *)
(*                every step.                                              *)
(* FairSpec:      Spec with the worker thread scheduled fairly.            *)
(* SpecAnyConfig: the button handlers alone, with any configuration and    *)
(*                any full model.                                          *)
(* SpecFault:     Spec with errors raised inside a step, a loss that       *)
(*                overflows and a clock that does not advance.             *)
(* SpecData:      assemble_data applied to simulated paths.                *)
(*                                                                         *)
(* An exception that leaves a handler or run is taken to end that handler  *)
(* or thread only; where Qt aborts the process instead, the behaviour      *)
(* stops there, which every specification below allows.                    *)
(***************************************************************************)
EXTENDS Integers, Sequences, FiniteSets, TLC

\* Bounds of the inputs drawn by a click on "Run".
MaxEpochs == 2
MaxKtrain == 2
MaxBatchSize == 2

\* Bounds of the simulations handed to assemble_data: maturity (in days), number
\* of paths and price levels.
MaxN == 2
MaxPaths == 2
MaxPrice == 2

\* MainWindow.days_from_today: the time index of the delta sub-model
days_from_today == 15

VARIABLES
    run_btn,            \* MainWindow.run_btn.text()
    pause_btn,          \* MainWindow.pause_btn.text()
    S,                  \* MainWindow.S: "none", or the validity of the configuration
                        \* simulate_stock_prices last ran on
    strategy_type,      \* MainWindow.strategy_type ("none" before the first click)
    model,              \* MainWindow.model: the full model object, of layers[model]
    submodel,           \* MainWindow.submodel
    raised,             \* the exception that ended the last call of RunButton
    sim,                \* the simulation assemble_data reads: MainWindow.N, S0,
                        \* strike and the paths MainWindow.S
    x_all,              \* MainWindow.x_all
    self_exit,          \* DH_Worker._exit
    self_pause,         \* DH_Worker._pause
    self_epochs,        \* DH_Worker.epochs
    self_Ktrain,        \* DH_Worker.Ktrain, the size of DH_Worker.training_dataset
    self_batch_size,    \* DH_Worker.batch_size
    self_model,         \* DH_Worker.model (identity of the model object, 0 = unset)
    pc,                 \* position of the worker thread in DH_Worker.run
    model_func,         \* run's local model_func: the model it wraps
    num_epoch,          \* run's local num_epoch
    num_batch,          \* run's local num_batch
    mini_batch_iter,    \* run's local mini_batch_iter (the mini-batch cursor)
    updates,            \* optimizer updates applied to the weights of model_func
                        \* (stands for the network parameters and the Adam state)
    weights_finite,     \* FALSE once an update computed from a non-finite loss was applied
    loss,               \* run's local loss: "finite" or "nonfinite"
    PnL_DH,             \* run's local PnL_DH: the number of updates its network had
    h                   \* history of the current session (observation only)

vars == <<run_btn, pause_btn, S, strategy_type, model, submodel, raised, sim, x_all,
          self_exit, self_pause, self_epochs, self_Ktrain,
          self_batch_size, self_model, pc, model_func, num_epoch, num_batch,
          mini_batch_iter, updates, weights_finite, loss, PnL_DH, h>>

build_vars == <<strategy_type, model, submodel>>
data_vars == <<sim, x_all>>
gui_vars == <<run_btn, pause_btn, S, build_vars, raised, data_vars>>
field_vars == <<self_epochs, self_Ktrain, self_batch_size, self_model>>
local_vars == <<model_func, num_epoch, num_batch, mini_batch_iter, updates,
                weights_finite, loss, PnL_DH>>

Min(a, b) == IF a < b THEN a ELSE b

\* The cursor before its first assignment (an unbound local).
Unbound == [bound |-> FALSE, left |-> 0, bs |-> 0]

\* training_dataset.shuffle(Ktrain).batch(batch_size).__iter__()
NewIter(K, B) == [bound |-> TRUE, left |-> K, bs |-> B]

\* The values the parameter tree hands to RunButton: the market and network
\* parameters, and the learning parameters.
Configs == [sigma : {0, 1}, N : {0, 1}, strategy_type : {"simple", "recurrent", "other"}]
Learning == [epochs : 1..MaxEpochs, Ktrain : 1..MaxKtrain, batch_size : 1..MaxBatchSize]

\* What the specification calls a valid configuration.
ValidConfig(cfg) ==
    /\ cfg.sigma > 0
    /\ cfg.N >= 1
    /\ cfg.strategy_type \in {"simple", "recurrent"}

\* A layer of the full model, named <name>_<t> as Deep_Hedging_Model names them
Layer(name, t) == [name |-> name, t |-> t]

\* A full model whose horizon covers days_from_today: model.layers
CompleteModel ==
    <<Layer("input", 0),
      Layer("dense_0", days_from_today - 1), Layer("delta", days_from_today - 1),
      Layer("dense_0", days_from_today), Layer("dense_1", days_from_today),
      Layer("delta", days_from_today)>>

WithoutLayer(m, name) == SelectSeq(m, LAMBDA l : l # Layer(name, days_from_today))

\* model.layers of the model objects Define_DH_model may return: the complete
\* one, one without the first layer of days_from_today, one without its output
\* layer, and one whose horizon ends before days_from_today; "none" is
\* MainWindow.model before the first assignment.
layers ==
    [complete |-> CompleteModel,
     no_first |-> WithoutLayer(CompleteModel, "dense_0"),
     no_output |-> WithoutLayer(CompleteModel, "delta"),
     short |-> SubSeq(CompleteModel, 1, 3),
     none |-> <<>>]

FullModels == {"complete", "no_first", "no_output", "short"}

\* The position of the layer <name>_<t> in model.layers, 0 when there is none
IndexOf(m, name, t) ==
    IF \E i \in 1..Len(m) : m[i] = Layer(name, t)
    THEN CHOOSE i \in 1..Len(m) :
             /\ m[i] = Layer(name, t)
             /\ \A j \in 1..(i - 1) : m[j] # Layer(name, t)
    ELSE 0

\* The outcomes of Define_DH_Delta_Strategy_Model: it raises, or it returns
\* Model(...) with a number of inputs and the layers from input to output
Raise(e) == [raised |-> e, inputs |-> 0, layers |-> <<>>]
Model(n, ls) == [raised |-> "none", inputs |-> n, layers |-> ls]

\* MainWindow.submodel before the first assignment
NoSubmodel == Model(0, <<>>)

\* The real number f(x / by), with f the identity or the logarithm
Num(f, x, by) == [f |-> f, x |-> x, by |-> by]

\* line 55
information_set == "normalized_log_S"

\* MainWindow.N, S0, strike and S before the first simulation
NoSim == [N |-> 0, S0 |-> 0, strike |-> 0, S |-> <<>>]

\* The simulations gen_path returns: S[k][i + 1] is the price of path k at step
\* i = 0..N, and every path starts at S0.
Sims ==
    UNION {[N : {n}, S0 : {s0}, strike : 1..MaxPrice,
            S : [1..nobs -> {p \in [1..(n + 1) -> 1..MaxPrice] : p[1] = s0}]] :
           n \in 1..MaxN, nobs \in 1..MaxPaths, s0 \in 1..MaxPrice}

\* line 47 and line 256: the payoff of the short call
payoff_func(d, x) == Num("id", 0 - (IF x - d.strike > 0 THEN x - d.strike ELSE 0), 1)

\* line 471: np.stack(S, axis=1), trade_set[i + 1][k] is the price of path k at
\* step i
trade_set(d) ==
    [i \in 1..(d.N + 1) |-> [k \in 1..Len(d.S) |-> Num("id", d.S[k][i], 1)]]

\* lines 473-478: the information set, by the module's information_set
I(d) ==
    [i \in 1..(d.N + 1) |->
        [k \in 1..Len(d.S) |->
            IF information_set = "S" THEN Num("id", d.S[k][i], 1)
            ELSE IF information_set = "log_S" THEN Num("log", d.S[k][i], 1)
            ELSE Num("log", d.S[k][i], d.S0)]]

\* lines 484-488 with the test of line 487 dropped
RECURSIVE x_all_loop_AllInfo(_, _)
x_all_loop_AllInfo(d, i) ==
    IF i > d.N THEN <<>>
    ELSE <<trade_set(d)[i + 1]>> \o <<I(d)[i + 1]>> \o x_all_loop_AllInfo(d, i + 1)

\* lines 484-488: for i in range(N + 1): the trade set at step i, and, if
\* i != N, the information set at step i
RECURSIVE x_all_loop(_, _)
x_all_loop(d, i) ==
    IF i > d.N THEN <<>>
    ELSE <<trade_set(d)[i + 1]>>
         \o (IF i # d.N THEN <<I(d)[i + 1]>> ELSE <<>>)
         \o x_all_loop(d, i + 1)

\* assemble_data with x_all_loop_AllInfo for its loop
assemble_data_AllInfo(d) ==
    x_all_loop_AllInfo(d, 0)
    \o <<[k \in 1..Len(d.S) |-> payoff_func(d, d.S[k][d.N + 1])]>>

\* lines 469-489: x_all, the loop's slots followed by the payoff at maturity
assemble_data(d) ==
    x_all_loop(d, 0)
    \o <<[k \in 1..Len(d.S) |-> payoff_func(d, d.S[k][d.N + 1])]>>

\* The history of a session that has not taken a step yet.
NoHistory ==
    [started    |-> FALSE,  \* run_deep_hedge_algo started a thread
     epochs     |-> 0,      \* the arguments of that call
     Ktrain     |-> 0,
     batch_size |-> 0,
     stop       |-> FALSE,  \* stop() was called while the thread ran
     pause      |-> FALSE,  \* pause() was called while the thread ran
     since_pause |-> 0,     \* steps completed with _pause set, since the last
                            \* call of pause(), cont() or stop()
     after      |-> 0,      \* steps begun after stop() was first called
     draws      |-> 0,      \* mini-batch steps begun
     emits      |-> 0,      \* snapshots emitted
     last       |-> <<0, 0, 0, 0, FALSE>>, \* last snapshot of the running thread:
                            \* epoch, batch, updates reflected, step, and whether
                            \* that step resumed
     raised     |-> "none", \* an error raised inside a step
     slept      |-> FALSE,  \* the worker has been in the pause branch
     paused     |-> FALSE,  \* the worker is in the pause branch
     at_pause   |-> <<>>,   \* the training state when it entered it
     resumed    |-> FALSE,  \* the current step is the first after a pause
     exit       |-> "none"] \* how run ended

\* The state after construction, with the simulation d in the window's fields
Start(d) ==
    /\ run_btn = "Run"
    /\ pause_btn = "Pause"
    /\ S = "none"
    /\ strategy_type = "none"
    /\ model = "none"
    /\ submodel = NoSubmodel
    /\ raised = "none"
    /\ sim = d
    /\ x_all = <<>>
    /\ self_exit = FALSE
    /\ self_pause = FALSE
    /\ self_epochs = 0
    /\ self_Ktrain = 0
    /\ self_batch_size = 0
    /\ self_model = 0
    /\ pc = "idle"
    /\ model_func = 0
    /\ num_epoch = 0
    /\ num_batch = 0
    /\ mini_batch_iter = Unbound
    /\ updates = 0
    /\ weights_finite = TRUE
    /\ loss = "finite"
    /\ PnL_DH = 0
    /\ h = NoHistory

Init == Start(NoSim)

\* QThread.isRunning()
Executing == pc \notin {"idle", "finished"}

TrainState == <<mini_batch_iter, num_epoch, num_batch, updates, weights_finite, model_func>>

----------------------------------------------------------------------------
\* DH_Worker, called on the GUI thread

\* DH_Worker.stop
stop ==
    /\ self_exit' = TRUE
    /\ h' = IF Executing THEN [h EXCEPT !.stop = TRUE, !.since_pause = 0] ELSE h

\* DH_Worker.pause
pause ==
    /\ self_pause' = TRUE
    /\ h' = IF Executing THEN [h EXCEPT !.pause = TRUE, !.since_pause = 0] ELSE h

\* DH_Worker.cont
cont ==
    /\ self_pause' = FALSE
    /\ h' = [h EXCEPT !.since_pause = 0]

\* Define_DH_model: a new model object, distinct from the one a running thread holds
NewModel == IF Executing /\ model_func = 1 THEN 2 ELSE 1

\* DH_Worker.run_deep_hedge_algo: store the arguments, then QThread.start(),
\* which does nothing when the thread is already running.
run_deep_hedge_algo(lrn) ==
    /\ self_epochs' = lrn.epochs
    /\ self_Ktrain' = lrn.Ktrain
    /\ self_batch_size' = lrn.batch_size
    /\ self_model' = NewModel
    /\ IF Executing
       THEN UNCHANGED <<pc, h>>
       ELSE /\ pc' = "started"
            /\ h' = [NoHistory EXCEPT !.started = TRUE, !.epochs = lrn.epochs,
                                      !.Ktrain = lrn.Ktrain,
                                      !.batch_size = lrn.batch_size]

----------------------------------------------------------------------------
\* MainWindow

\* simulate_stock_prices: no check of the configuration precedes the simulation
simulate_stock_prices(cfg) == IF ValidConfig(cfg) THEN "valid" ELSE "invalid"

\* SimpleSubmodel that skips the layers the model does not have
SimpleSubmodel_SkipsMissing(m) ==
    Model(1, SelectSeq(m, LAMBDA l : l.t = days_from_today))

\* lines 322-324: get_layer raises ValueError for a name the model does not
\* have; Model(input, output) is made of the layers that lead from the input of
\* dense_0_<t> to the output of delta_<t>, those of the time index t.
SimpleSubmodel(m) ==
    LET first == IndexOf(m, "dense_0", days_from_today)
        last == IndexOf(m, "delta", days_from_today)
    IN  IF first = 0 \/ last = 0 THEN Raise("ValueError")
        ELSE Model(1, SelectSeq(SubSeq(m, first, last),
                                LAMBDA l : l.t = days_from_today))

\* lines 327-344: two inputs, concatenated, then the loop over model.layers. Its
\* first pass either meets delta_15 and breaks (line 337-339), or goes on to
\* line 341, which reads flag_add_layer_for_submodel, a name that is never
\* assigned: NameError. A model without layers skips the loop.
RecurrentSubmodel(m) ==
    IF Len(m) = 0 THEN Model(2, <<>>)
    ELSE IF m[1] # Layer("dense_0", days_from_today) /\ m[1] = Layer("delta", 15)
         THEN Model(2, <<m[1]>>)
         ELSE Raise("NameError")

\* Define_DH_Delta_Strategy_Model for the strategy type st and the full model m;
\* with another strategy type no branch assigns submodel and the return
\* raises UnboundLocalError.
Define_DH_Delta_Strategy_Model(st, m) ==
    IF st = "simple" THEN SimpleSubmodel(m)
    ELSE IF st = "recurrent" THEN RecurrentSubmodel(m)
    ELSE Raise("UnboundLocalError")

\* line 274: the outcome of Define_DH_Delta_Strategy_Model for each strategy
\* type and each full model
SubmodelFor ==
    [st \in {"simple", "recurrent", "other"} |->
        [m \in FullModels |-> Define_DH_Delta_Strategy_Model(st, layers[m])]]

\* RunButton, the branch run_btn.text() == "Stop"
RunButtonStop ==
    /\ run_btn = "Stop"
    /\ stop
    /\ pause_btn' = "Pause"
    /\ run_btn' = "Run"
    /\ raised' = "none"
    /\ UNCHANGED <<S, build_vars, data_vars, self_pause, field_vars, pc, local_vars>>

\* RunButton, the branch run_btn.text() == "Run", for a configuration of cfgs
\* and a full model of models. The training set is kept as its size Ktrain; an
\* exception of line 274 ends the handler before the worker is started.
RunClick(cfgs, models) ==
    /\ run_btn = "Run"
    /\ run_btn' = "Stop"
    /\ \E cfg \in cfgs, m \in models :
        LET sub == SubmodelFor[cfg.strategy_type][m]
        IN  /\ strategy_type' = cfg.strategy_type
            /\ S' = simulate_stock_prices(cfg)
            /\ model' = m
            /\ raised' = sub.raised
            /\ IF sub.raised = "none"
               THEN /\ submodel' = sub
                    /\ \E lrn \in Learning : run_deep_hedge_algo(lrn)
               ELSE UNCHANGED <<submodel, field_vars, pc, h>>
    /\ UNCHANGED <<pause_btn, data_vars, self_exit, self_pause, local_vars>>

\* the parameter tree holds a valid configuration for which both models are
\* built: the simple strategy, with a horizon that covers days_from_today
RunButtonRun ==
    RunClick({cfg \in Configs : ValidConfig(cfg) /\ cfg.strategy_type = "simple"},
             {"complete"})

RunButton == RunButtonStop \/ RunButtonRun

\* Pause, the branch pause_btn.text() == "Pause"
PausePause ==
    /\ pause_btn = "Pause"
    /\ pause
    /\ pause_btn' = "Continue"
    /\ UNCHANGED <<run_btn, S, build_vars, raised, data_vars, self_exit, field_vars, pc,
                   local_vars>>

\* Pause, the branch pause_btn.text() == "Continue"
PauseContinue ==
    /\ pause_btn = "Continue"
    /\ cont
    /\ pause_btn' = "Pause"
    /\ UNCHANGED <<run_btn, S, build_vars, raised, data_vars, self_exit, field_vars, pc,
                   local_vars>>

Pause == PausePause \/ PauseContinue

----------------------------------------------------------------------------
\* DH_Worker.run, on the worker thread

\* run returns and the thread finishes: the locals of run are gone
FinishWith(how, hist) ==
    /\ pc' = "finished"
    /\ model_func' = 0
    /\ num_epoch' = 0
    /\ num_batch' = 0
    /\ mini_batch_iter' = Unbound
    /\ loss' = "finite"
    /\ PnL_DH' = 0
    /\ h' = [hist EXCEPT !.exit = how, !.paused = FALSE, !.at_pause = <<>>,
                         !.resumed = FALSE, !.last = NoHistory.last,
                         !.since_pause = 0]

Finish(how) == FinishWith(how, h)

\* lines 121-130: the accelerated model, a new optimizer, num_epoch = 0
Begin ==
    /\ pc = "started"
    /\ model_func' = self_model
    /\ num_epoch' = 0
    /\ num_batch' = 0
    /\ mini_batch_iter' = Unbound
    /\ updates' = 0
    /\ weights_finite' = TRUE
    /\ loss' = "finite"
    /\ PnL_DH' = 0
    /\ pc' = "while"
    /\ UNCHANGED <<gui_vars, self_exit, self_pause, field_vars, h>>

\* line 131: while num_epoch <= self.epochs
WhileTest ==
    /\ pc = "while"
    /\ IF num_epoch <= self_epochs
       THEN /\ pc' = "exitchk"
            /\ UNCHANGED <<model_func, num_epoch, num_batch, mini_batch_iter, loss,
                           PnL_DH, h>>
       ELSE Finish("completed")
    /\ UNCHANGED <<gui_vars, self_exit, self_pause, field_vars, updates, weights_finite>>

\* ExitCheck without the break: the exit flag is reset and the loop goes on
ExitCheck_NoBreak ==
    /\ pc = "exitchk"
    /\ pc' = "pausechk"
    /\ self_exit' = FALSE
    /\ self_pause' = IF self_exit THEN FALSE ELSE self_pause
    /\ UNCHANGED <<gui_vars, field_vars, local_vars, h>>

\* lines 133-137: if self._exit: drop the cursor, reset both flags, break
ExitCheck ==
    /\ pc = "exitchk"
    /\ IF self_exit
       THEN /\ self_exit' = FALSE
            /\ self_pause' = FALSE
            /\ Finish("stopped")
       ELSE /\ pc' = "pausechk"
            /\ UNCHANGED <<self_exit, self_pause, model_func, num_epoch, num_batch,
                           mini_batch_iter, loss, PnL_DH, h>>
    /\ UNCHANGED <<gui_vars, field_vars, updates, weights_finite>>

\* PauseCheck that takes the step whatever the pause flag is
PauseCheck_IgnoresPause ==
    /\ pc = "pausechk"
    /\ pc' = "draw"
    /\ h' = [h EXCEPT !.paused = FALSE, !.at_pause = <<>>, !.resumed = h.paused]
    /\ UNCHANGED <<gui_vars, self_exit, self_pause, field_vars, local_vars>>

\* line 139: if not self._pause
PauseCheck ==
    /\ pc = "pausechk"
    /\ IF ~self_pause
       THEN /\ pc' = "draw"
            /\ h' = [h EXCEPT !.paused = FALSE, !.at_pause = <<>>,
                              !.resumed = h.paused]
       ELSE /\ pc' = "sleep"
            /\ h' = IF h.paused THEN h
                    ELSE [h EXCEPT !.paused = TRUE, !.slept = TRUE,
                                   !.at_pause = TrainState]
    /\ UNCHANGED <<gui_vars, self_exit, self_pause, field_vars, local_vars>>

\* Sleep that lets go of the cursor while it waits
Sleep_DropsCursor ==
    /\ pc = "sleep"
    /\ pc' = "while"
    /\ mini_batch_iter' = Unbound
    /\ UNCHANGED <<gui_vars, self_exit, self_pause, field_vars, model_func, num_epoch,
                   num_batch, updates, weights_finite, loss, PnL_DH, h>>

\* line 170: time.sleep(1)
Sleep ==
    /\ pc = "sleep"
    /\ pc' = "while"
    /\ UNCHANGED <<gui_vars, self_exit, self_pause, field_vars, local_vars, h>>

\* DrawBatch that restarts num_batch at every step
DrawBatch_NoCount(err, overflow) ==
    /\ pc = "draw"
    /\ IF mini_batch_iter.bound /\ mini_batch_iter.left > 0 /\ ~err
       THEN /\ mini_batch_iter' =
                  [mini_batch_iter EXCEPT
                      !.left = @ - Min(mini_batch_iter.bs, mini_batch_iter.left)]
            /\ num_epoch' = num_epoch
            /\ num_batch' = 0 + 1
       ELSE /\ mini_batch_iter' =
                  [NewIter(self_Ktrain, self_batch_size) EXCEPT
                      !.left = @ - Min(self_batch_size, self_Ktrain)]
            /\ num_epoch' = num_epoch + 1
            /\ num_batch' = 0 + 1
    /\ loss' = IF weights_finite /\ ~overflow THEN "finite" ELSE "nonfinite"
    /\ pc' = "evaluate"
    /\ h' = [h EXCEPT !.draws = @ + 1,
                      !.after = IF h.stop THEN @ + 1 ELSE @,
                      !.raised = IF err THEN "draw" ELSE @]
    /\ UNCHANGED <<gui_vars, self_exit, self_pause, field_vars, model_func, updates,
                   weights_finite, PnL_DH>>

\* lines 140-154: the next batch of the cursor, then wealth and loss under the
\* gradient tape. When next() raises (the cursor is unbound or exhausted, or
\* err: it failed for another reason) the bare except starts the next epoch with
\* a new cursor. The loss is finite when the weights are, unless the entropic
\* loss overflows (overflow).
DrawBatch(err, overflow) ==
    /\ pc = "draw"
    /\ IF mini_batch_iter.bound /\ mini_batch_iter.left > 0 /\ ~err
       THEN /\ mini_batch_iter' =
                  [mini_batch_iter EXCEPT
                      !.left = @ - Min(mini_batch_iter.bs, mini_batch_iter.left)]
            /\ num_epoch' = num_epoch
            /\ num_batch' = num_batch + 1
       ELSE /\ mini_batch_iter' =
                  [NewIter(self_Ktrain, self_batch_size) EXCEPT
                      !.left = @ - Min(self_batch_size, self_Ktrain)]
            /\ num_epoch' = num_epoch + 1
            /\ num_batch' = 0 + 1
    /\ loss' = IF weights_finite /\ ~overflow THEN "finite" ELSE "nonfinite"
    /\ pc' = "evaluate"
    /\ h' = [h EXCEPT !.draws = @ + 1,
                      !.after = IF h.stop THEN @ + 1 ELSE @,
                      !.raised = IF err THEN "draw" ELSE @]
    /\ UNCHANGED <<gui_vars, self_exit, self_pause, field_vars, model_func, updates,
                   weights_finite, PnL_DH>>

Draw == DrawBatch(FALSE, FALSE)

\* Evaluate placed after the update of the step
Evaluate_AfterUpdate ==
    /\ pc = "evaluate"
    /\ PnL_DH' = updates + 1
    /\ pc' = "update"
    /\ UNCHANGED <<gui_vars, self_exit, self_pause, field_vars, model_func, num_epoch,
                   num_batch, mini_batch_iter, updates, weights_finite, loss, h>>

\* lines 156-158: the out-of-sample PnL, the delta on the grid, the histogram
Evaluate ==
    /\ pc = "evaluate"
    /\ PnL_DH' = updates
    /\ pc' = "update"
    /\ UNCHANGED <<gui_vars, self_exit, self_pause, field_vars, model_func, num_epoch,
                   num_batch, mini_batch_iter, updates, weights_finite, loss, h>>

\* lines 161-168: the gradients of the loss for self.model.trainable_weights and
\* one Adam update, then the snapshot, emitted when the clock has advanced since
\* the last one (elapsed = end - start). The tape watched the weights of
\* model_func: for another model's weights every gradient is None and
\* apply_gradients raises.
UpdateStep(elapsed) ==
    /\ pc = "update"
    /\ IF self_model = model_func
       THEN /\ updates' = updates + 1
            /\ weights_finite' = (weights_finite /\ loss = "finite")
            /\ pc' = "while"
            /\ h' = IF elapsed > 0
                    THEN [h EXCEPT !.emits = @ + 1,
                                   !.last = <<num_epoch, num_batch, PnL_DH, h.draws,
                                              h.resumed>>,
                                   !.since_pause = IF self_pause THEN @ + 1 ELSE @]
                    ELSE [h EXCEPT !.since_pause = IF self_pause THEN @ + 1 ELSE @]
            /\ UNCHANGED <<model_func, num_epoch, num_batch, mini_batch_iter, loss,
                           PnL_DH>>
       ELSE /\ UNCHANGED <<updates, weights_finite>>
            /\ Finish("exception")
    /\ UNCHANGED <<gui_vars, self_exit, self_pause, field_vars>>

\* the clock advances while a step runs
Update == UpdateStep(1)

Worker ==
    \/ Begin \/ WhileTest \/ ExitCheck \/ PauseCheck \/ Sleep
    \/ Draw \/ Evaluate \/ Update

Next == RunButton \/ Pause \/ Worker

Spec == Init /\ [][Next]_vars

\* The worker thread is scheduled as long as it has a statement to run.
FairSpec == Spec /\ WF_vars(Worker)

----------------------------------------------------------------------------
\* The button handlers with any configuration in the parameter tree, the worker
\* thread not yet scheduled

RunButtonRunAny == RunClick(Configs, FullModels)

NextAnyConfig == RunButtonStop \/ RunButtonRunAny \/ Pause

SpecAnyConfig == Init /\ [][NextAnyConfig]_vars

----------------------------------------------------------------------------
\* assemble_data applied to the simulations of Sims

InitData == \E d \in Sims : Start(d)

\* line 267: self.training_dataset = self.assemble_data()
AssembleData ==
    /\ sim \in Sims
    /\ x_all = <<>>
    /\ x_all' = assemble_data(sim)
    /\ UNCHANGED <<run_btn, pause_btn, S, build_vars, raised, sim, self_exit,
                   self_pause, field_vars, pc, local_vars, h>>

NextData == AssembleData

SpecData == InitData /\ [][NextData]_vars

----------------------------------------------------------------------------
\* Failures inside a mini-batch step, and a clock that does not advance

\* line 141 or 147: next() fails for a reason other than an exhausted cursor
DrawError == DrawBatch(TRUE, FALSE)

\* line 154: the entropic loss overflows to a non-finite value
Overflow == DrawBatch(FALSE, TRUE)

\* lines 153-154: the forward pass raises; run has no handler there, the
\* exception leaves run and the thread ends
ForwardError ==
    /\ pc = "draw"
    /\ FinishWith("exception", [h EXCEPT !.draws = @ + 1, !.raised = "forward",
                                         !.after = IF h.stop THEN @ + 1 ELSE @])
    /\ UNCHANGED <<gui_vars, self_exit, self_pause, field_vars, updates, weights_finite>>

\* lines 164-165: time.time() returns at the end of the step what it returned
\* at the last snapshot
SameClock == UpdateStep(0)

NextFault == Next \/ DrawError \/ Overflow \/ ForwardError \/ SameClock

SpecFault == Init /\ [][NextFault]_vars

----------------------------------------------------------------------------
\* Properties

CeilDiv(a, b) == (a + b - 1) \div b

\* The schedule of a session: epochs * ceil(Ktrain / batch_size) mini-batch steps
FullSchedule == h.epochs * CeilDiv(h.Ktrain, h.batch_size)

\* The epoch and batch index of the k-th step of an uninterrupted session
StepLabel(k) ==
    <<((k - 1) \div CeilDiv(h.Ktrain, h.batch_size)) + 1,
      ((k - 1) % CeilDiv(h.Ktrain, h.batch_size)) + 1>>

LexLess(a, b) == a[1] < b[1] \/ (a[1] = b[1] /\ a[2] < b[2])

Uninterrupted == h.started /\ ~h.stop /\ ~h.pause /\ ~h.slept

\* C1: a session that is never paused or stopped performs exactly
\* epochs * ceil(Ktrain / batch_size) mini-batch steps and emits as many
\* snapshots before it terminates.
C1_ExactSchedule ==
    (pc = "finished" /\ h.exit = "completed" /\ Uninterrupted)
        => (updates = FullSchedule /\ h.emits = FullSchedule)

\* C2: a session started while no worker thread executes enters Running and
\* performs its first mini-batch step, unless pause() or stop() is called after
\* the start: it neither waits in the pause branch nor ends without a step.
C2_StartRunsFirstStep ==
    (h.started /\ ~h.stop /\ ~h.pause)
        => (pc # "sleep" /\ (pc = "finished" => h.draws >= 1))

\* C3: stop() called a second time, or while no session is executing, leaves the
\* flags _exit and _pause as they were.
C3_StopIdempotent ==
    [][(RunButtonStop /\ (self_exit \/ ~Executing))
          => (self_exit' = self_exit /\ self_pause' = self_pause)]_vars

\* C4 as stated: after stop() on an executing worker at most the step in flight
\* completes, and the finished session has emitted fewer snapshots than the full
\* schedule.
C4_StopEmitsFewer ==
    h.stop => (h.after <= 1 /\ (pc = "finished" => h.emits < FullSchedule))

\* C4 as amended: after stop() on an executing worker no step but the one in
\* flight is begun, every snapshot belongs to a step begun, and the thread
\* finishes.
C4_StopEndsSession ==
    /\ [](h.stop => (h.after <= 1 /\ h.emits <= h.draws))
    /\ ((h.stop /\ Executing) ~> (pc = "finished"))

C4_Witness == pc = "finished" /\ h.stop /\ h.after = 1 /\ h.emits = FullSchedule

\* C5: within a session the (epoch, batch) pairs of the emitted snapshots grow
\* strictly in lexicographic order, whatever pause() and cont() calls interleave.
C5_SnapshotsIncrease ==
    [][(h.last[4] >= 1 /\ h'.emits > h.emits)
          => LexLess(<<h.last[1], h.last[2]>>, <<h'.last[1], h'.last[2]>>)]_vars

\* a snapshot before a pause and the next one right after the resume
C5_Witness == h.emits >= 2 /\ h.last[4] >= 2 /\ h.last[5]

\* C6: while the worker is in the pause branch, and when it resumes, the cursor,
\* the counters, the weights and the optimizer are those of the moment it paused;
\* every step of a session that is not stopped carries the label of the same
\* step of the uninterrupted session.
C6_PauseKeepsTrainingState ==
    /\ h.paused => TrainState = h.at_pause
    /\ (pc \in {"evaluate", "update"} /\ ~h.stop)
          => (<<num_epoch, num_batch>> = StepLabel(h.draws) /\ updates = h.draws - 1)

\* resumed in the middle of a session
C6_Witness == pc = "evaluate" /\ h.resumed /\ h.draws >= 2 /\ ~h.stop

\* C7 as stated: the snapshot of the k-th step reflects the weights after k
\* optimizer updates.
C7_SnapshotAfterUpdate == h.last[4] >= 1 => h.last[3] = h.last[4]

\* C7 as amended: the network is evaluated before the update of the step is
\* applied, so the snapshot of the k-th step reflects the weights after k - 1
\* optimizer updates.
C7_SnapshotBeforeUpdate == h.last[4] >= 1 => h.last[3] = h.last[4] - 1

C7_Witness == h.emits >= 2 /\ h.last[4] >= 2

\* C8: an error raised while drawing a batch or in the forward/backward
\* computation ends the session: the thread finishes with the exception, the
\* loop never continues after it.
C8_ErrorsEndSession ==
    h.raised # "none" => (pc = "finished" /\ h.exit = "exception")

\* C9: a non-finite loss is detected: no update computed from it is applied and
\* the loop does not go on to another step.
C9_NonFiniteLossDetected ==
    /\ weights_finite
    /\ loss = "nonfinite" => pc \in {"evaluate", "update", "finished"}

\* C10: simulate_stock_prices never executes on an invalid configuration.
C10_InvalidConfigNotSimulated == S # "invalid"

\* The example of path k: slot j of the tuple is Example(k)[j + 1]
Example(k) == [j \in 1..Len(x_all) |-> x_all[j][k]]

\* The trade signal, the information signal and the payoff of path k
TradeSignal(k, i) == Num("id", sim.S[k][i + 1], 1)
InfoSignal(k, i) == Num("log", sim.S[k][i + 1], sim.S0)
TerminalPayoff(k) ==
    Num("id", IF sim.S[k][sim.N + 1] > sim.strike
              THEN sim.strike - sim.S[k][sim.N + 1] ELSE 0, 1)

\* The slots 0..2N-1 and 2N+1 of every example, on which C11 as stated and as
\* amended agree
InterleavedThenPayoff ==
    /\ \A j \in 1..Len(x_all) : Len(x_all[j]) = Len(sim.S)
    /\ \A k \in 1..Len(sim.S) :
          /\ Len(Example(k)) = 2 * sim.N + 2
          /\ \A i \in 0..(sim.N - 1) :
                /\ Example(k)[2 * i + 1] = TradeSignal(k, i)
                /\ Example(k)[2 * i + 2] = InfoSignal(k, i)
          /\ Example(k)[2 * sim.N + 2] = TerminalPayoff(k)

\* C11 as stated: the example of a path has 2N+2 slots, slot 2i the trade
\* signal and slot 2i+1 the information signal at step i < N, slot 2N the
\* information signal at step N, slot 2N+1 the terminal payoff.
C11_InfoSignalAtMaturity ==
    x_all # <<>> =>
        /\ InterleavedThenPayoff
        /\ \A k \in 1..Len(sim.S) : Example(k)[2 * sim.N + 1] = InfoSignal(k, sim.N)

\* C11 as amended: the same layout, but slot 2N is the trade signal (the price)
\* at step N; the information signal at step N is not in the example.
C11_TradeSignalAtMaturity ==
    x_all # <<>> =>
        /\ InterleavedThenPayoff
        /\ \A k \in 1..Len(sim.S) : Example(k)[2 * sim.N + 1] = TradeSignal(k, sim.N)

\* two paths of two steps that end on either side of the strike
C11_Witness ==
    /\ x_all # <<>>
    /\ sim.N = 2
    /\ Len(sim.S) = 2
    /\ sim.S[1][3] > sim.strike
    /\ sim.S[2][3] <= sim.strike
    /\ sim.S[1][3] # sim.S0

\* The full model has the first and the output layer of the fixed time index
HasLayers(m) ==
    /\ \E i \in 1..Len(m) : m[i] = Layer("dense_0", days_from_today)
    /\ \E i \in 1..Len(m) : m[i] = Layer("delta", days_from_today)

\* The layers of the fixed time index, from dense_0_<t> through delta_<t>
LayersOfIndex(m) == SelectSeq(m, LAMBDA l : l.t = days_from_today)

\* C12: for the simple and the recurrent strategy and a full model that has
\* the layers of the fixed time index, the click builds the sub-model of exactly
\* the layers dense_0_<t> .. delta_<t>, with one input (simple) or two
\* (recurrent), and construction does not raise.
C12_SubmodelBuilt ==
    (run_btn = "Stop" /\ strategy_type \in {"simple", "recurrent"}
         /\ HasLayers(layers[model]))
        => /\ raised = "none"
           /\ submodel.layers = LayersOfIndex(layers[model])
           /\ submodel.inputs = (IF strategy_type = "recurrent" THEN 2 ELSE 1)

\* C17: when the full model lacks the first or the output layer of the fixed
\* time index, construction ends with an error, no sub-model is assigned, and
\* the click does not call run_deep_hedge_algo: the worker's fields, its thread
\* and the session history are left as they were.
C17_MissingLayerFails ==
    /\ [](run_btn = "Stop" /\ ~HasLayers(layers[model]) => raised # "none")
    /\ [][(run_btn = "Run" /\ run_btn' = "Stop" /\ ~HasLayers(layers[model']))
            => UNCHANGED <<submodel, field_vars, pc, h>>]_vars

\* a click with the simple strategy on a model without delta_<t>, no thread started
C17_Witness ==
    /\ run_btn = "Stop"
    /\ strategy_type = "simple"
    /\ model = "no_output"
    /\ raised = "ValueError"
    /\ pc = "idle"

\* C13: while the worker thread takes a mini-batch step, the fields it reads
\* (epochs, the training set and its size, the batch size, the model) are those
\* the session was started with: no handler of the GUI thread replaces them.
C13_SessionStateOwned ==
    pc \in {"draw", "evaluate", "update"}
        => /\ self_epochs = h.epochs
           /\ self_Ktrain = h.Ktrain
           /\ self_batch_size = h.batch_size
           /\ self_model = model_func

\* C14: with _pause set, the worker completes at most one step (the one in
\* flight) until cont() or stop() is called; at the pause check it goes to the
\* polling sleep, and as long as it stays in the pause branch no optimizer
\* update is applied, no batch drawn and no snapshot emitted.
C14_PauseStopsSteps ==
    /\ [](h.since_pause <= 1)
    /\ [][(pc = "pausechk" /\ self_pause /\ pc' # pc) => pc' = "sleep"]_vars
    /\ [][(h.paused /\ h'.paused)
            => (updates' = updates /\ h'.draws = h.draws /\ h'.emits = h.emits)]_vars

\* pause() during the second step of a session: the step completes, the worker
\* sleeps
C14_Witness ==
    /\ pc = "sleep"
    /\ h.since_pause = 1
    /\ h.draws = 2
    /\ h.emits = 2
    /\ self_pause
    /\ ~h.stop

\* C15: every completed mini-batch step has emitted its snapshot: a running
\* thread has emitted as many snapshots as it has applied updates.
C15_OneSnapshotPerStep ==
    pc \in {"while", "exitchk", "pausechk", "sleep", "draw", "evaluate", "update"}
        => h.emits = updates

\* C16: a session that ends on its own, stop() not called while it ran, ends
\* with _exit and _pause both False.
C16_EndsWithFlagsClear ==
    [][(pc # "finished" /\ pc' = "finished" /\ h'.exit = "completed" /\ ~h.stop)
          => (~self_exit' /\ ~self_pause')]_vars

\* C18: a step keeps the epoch and adds 1 to the batch index, or adds 1 to the
\* epoch and restarts the batch index at 1, the latter exactly when the cursor
\* of the epoch is exhausted (or the step is the first); the snapshot's batch
\* index lies in 1..ceil(Ktrain / batch_size) and its epoch is at least 1.
C18_EpochAndBatchIndex ==
    /\ [](h.last[4] >= 1
            => (h.last[1] >= 1 /\ h.last[2] \in 1..CeilDiv(h.Ktrain, h.batch_size)))
    /\ [][(pc = "draw" /\ pc' = "evaluate")
            => IF mini_batch_iter.bound /\ mini_batch_iter.left > 0
               THEN num_epoch' = num_epoch /\ num_batch' = num_batch + 1
               ELSE num_epoch' = num_epoch + 1 /\ num_batch' = 1]_vars

\* C19: the Run button reads 'Stop' only while the worker thread of a session
\* is executing.
C19_StopOnlyWhileSessionLive == run_btn = "Stop" => Executing

====
